---- MODULE Spec2Model ----
(***************************************************************************)
(* squish-dango: the soft-body engine (PhysicsEngine), the frame loop and  *)
(* shape resets (GameManager) and the pointer handling (InputController).  *)
(*                                                                         *)
(* Numbers.  interactBlend, recoveryGain and the stiffness scale factors   *)
(* are fixed-point in units of 1/One, with One = recoveryT = 24000, so     *)
(* that the recovery ramp dt/recoveryT advances by exactly dt units.       *)
(* Stiffness is fixed-point in units of 1/1000 (0.30 -> 300), and a        *)
(* product with a scale factor is rounded down to that unit.  A NaN        *)
(* produced by Math.pow on a negative base is the value NaN and            *)
(* propagates through the arithmetic.                                      *)
(*                                                                         *)
(* Objects.  A body is <<"B", gen, i>> (i = 0 the centre, 1..N the outer   *)
(* ring) and a constraint is <<"C", gen, k>> (k in creation order), gen    *)
(* being the number of the build that allocated it; a number is given      *)
(* again only once no object carrying it is referred to any more.          *)
(*                                                                         *)
(* Mechanics.  Coordinates and velocities are integers in units of 1/Px    *)
(* pixel, kept within +-Lim (a value beyond stands for Lim); gains are in  *)
(* units of 1/1000000, so a force is a length in 1/Px pixel times a gain.  *)
(* Damping factors are in percent, air friction and the body mass in       *)
(* 1/1000.  Engine.update is the library's position-Verlet pass over the   *)
(* bodies of the world followed by the clearing of the forces; its         *)
(* constraint and collision passes, angular motion and sleeping (which     *)
(* needs 60 quiet steps) are not part of the model.                        *)
(***************************************************************************)
EXTENDS Integers, Sequences, FiniteSets, TLC

\* ---------------------------------------------------------------- bounds
MaxN == 4
MaxBuilds == 2
MaxSteps == 2
MaxFrames == 2
MaxPointer == 2
MaxPush == 10000000
Lim == 50000

\* ------------------------------------------------------- program constants
recoveryT == 24000
tauInteract == 120
tauIdle == 900
frameClamp == 32
frameDefault == 16
sNeighbor == 300
sSecond == 200
sThird == 80
sDiameter == 120
sSpoke == 250
ringSoft == 20
spokeSoft == 40
defaultRadius == 80
anchorKBase0 == 1200
anchorKInteract0 == 600
anchorSnapDist == 80
anchorDampInteract == 75
anchorDampIdle == 92
frictionAirCenter == 120
frictionAirOuter == 140
radialBaseK == 250
radialInteractKMax == 1000
radialRecoverKMax == 600
radialKClamp == 3000
clampMaxPct == 125
marginX == 16
marginY == 60
squeezeKBase == 1600
squeezeKInteract == 400
squeezeDampInteract == 50
squeezeDampIdle == 80
squeezeScaleOuter == 22
squeezeScaleCenter == 6
wallThickness == 100
circleMass == 432

One == recoveryT
NaN == -2000000000
NULL == [null |-> TRUE]
NoAnchors == <<"null">>
NoTarget == <<"B", -1, -1>>
Px == 100
Undef == -1999999999
dragGain == 6000
pinchGain == 6000
pinchCap == 60

\* ------------------------------------------------------------ input sets
Counts == {2, MaxN - 1, MaxN}
Radii == {defaultRadius}
AnchorList(n) == [i \in 1..n |-> <<100 * i + 100, 50 + 300 * ((i * i) % 3)>>]
AnchorLists == {AnchorList(n) : n \in Counts}
StepCounts == {MaxN}
StepAnchors == {AnchorList(2), AnchorList(MaxN - 1)}
DtValues == {-16, 16, recoveryT}
Timestamps == {0, 1000}
PointerIds == 1..MaxPointer
DragDeltas == {<<10, -5>>}
PinchDists == {0, 40, 100}
PinchMids == {<<200, 200>>}
Spots == {"rim", "far"}
Centers == {<<75, 200>>}
BoundsValues == {<<400, 400>>}
Canvas == <<400, 400>>
DampingValues == {<<-500, 2000>>, <<Undef, Undef>>}
StrengthValues == {<<-1000, Undef>>, <<2000, -1000>>}

\* ------------------------------------------------------------- arithmetic
Min(a, b) == IF a < b THEN a ELSE b
Max(a, b) == IF a > b THEN a ELSE b

RECURSIVE IsqrtIter(_, _, _)
IsqrtIter(x, lo, hi) ==
  IF lo >= hi THEN lo
  ELSE LET mid == (lo + hi + 1) \div 2
       IN IF mid * mid <= x THEN IsqrtIter(x, mid, hi) ELSE IsqrtIter(x, lo, mid - 1)

Isqrt(x) == IsqrtIter(x, 0, 46340)

\* Math.pow(g, 1.5) for g in units of 1/One: NaN for a negative base
Pow15(g) == IF g = NaN \/ g < 0 THEN NaN ELSE (g * Isqrt(g * One)) \div One

Sub(a, b) == IF a = NaN \/ b = NaN THEN NaN ELSE a - b
Mul(a, b) == IF a = NaN \/ b = NaN THEN NaN ELSE a * b
DivC(a, d) == IF a = NaN THEN NaN ELSE a \div d

Abs(a) == IF a < 0 THEN -a ELSE a
Sgn(a) == IF a < 0 THEN -1 ELSE IF a > 0 THEN 1 ELSE 0

\* a / d rounded toward zero
Quot(a, d) == Sgn(a) * (Abs(a) \div d)

Clip(a) == Max(-Lim, Min(Lim, a))

\* a * b, kept within the machine range of the model
Sat(a, b) ==
  IF a = 0 \/ b = 0 THEN 0
  ELSE IF Abs(a) > 2000000000 \div Abs(b) THEN Sgn(a) * Sgn(b) * 2000000000
  ELSE a * b

\* a * b / d rounded toward zero and kept within +-Lim, for d > 0
MulDiv(a, b, d) == Clip(Quot(Sat(a, b), d))

\* a length times a gain, kept within +-Lim * 4000
Force(len, k) == Max(-(Lim * 4000), Min(Lim * 4000, Sat(len, k)))

\* Math.hypot(dx, dy), on a coarser grid for long vectors
Hypot(dx, dy) ==
  LET big == Max(Abs(dx), Abs(dy))
      s == IF big > 30000 THEN 10 ELSE 1
  IN s * Isqrt((dx \div s) * (dx \div s) + (dy \div s) * (dy \div s))

SeqToSet(s) == {s[i] : i \in 1..Len(s)}
Restrict(f, S) == [x \in (DOMAIN f) \cap S |-> f[x]]

\* ----------------------------------------------------------------- state
\* The engine's fields, the heap of constraints (cons) and bodies (bods), and
\* a record of the last call: lastCall (method and arguments), phases (the
\* routines the last update ran, in order), steps (updates so far), nearby
\* (outer points found within the snap distance by the last anchor pass),
\* snapped (those it teleported) and builtAs (the builder of the live body).  Then the fields of GameManager and of its
\* input controller, with touched (the bodies the last pointer event applied a
\* force to).
VARIABLES world, softBody, isInteracting, interactBlend, recoveryGain,
          baseStiffness, ringConstraints, spokeConstraints, baseRadius,
          anchors, cons, phases, lastCall, steps,
          bods, walls, width, height, anchorKBase, anchorKInteract, snapped, nearby,
          builtAs, input, started, running, lastTs, interacting, touched

engineVars == <<world, softBody, isInteracting, interactBlend, recoveryGain,
                baseStiffness, ringConstraints, spokeConstraints, baseRadius,
                anchors, cons, phases, lastCall, steps,
                bods, walls, width, height, anchorKBase, anchorKInteract, snapped,
                nearby, builtAs>>
\* the engine's state but for the bodies
engineRest == <<world, softBody, isInteracting, interactBlend, recoveryGain,
                baseStiffness, ringConstraints, spokeConstraints, baseRadius,
                anchors, cons, phases, lastCall, steps,
                walls, width, height, anchorKBase, anchorKInteract, snapped,
                nearby, builtAs>>
gmVars == <<input, started, running, lastTs, interacting, touched>>
vars == <<engineVars, gmVars>>

\* every object some field, list or map of the program refers to
InUse ==
  world \cup SeqToSet(ringConstraints) \cup SeqToSet(spokeConstraints)
        \cup (DOMAIN baseStiffness)
        \cup (IF softBody = NULL THEN {} ELSE SeqToSet(softBody.constraints))
        \cup (IF input = NULL THEN {}
              ELSE SeqToSet(input.bodies) \cup {input.pointers[p] : p \in DOMAIN input.pointers})

\* a fresh object is distinct from every object in use: the new build takes
\* the least build number no object in use carries
FreshGen ==
  LET taken == {o[2] : o \in InUse}
  IN CHOOSE g \in 0..(MaxBuilds + 1) : g \notin taken /\ \A h \in 0..(g - 1) : h \in taken

\* the engine as one value, so that a method that calls another composes
Eng == [world |-> world, softBody |-> softBody, isInteracting |-> isInteracting,
        interactBlend |-> interactBlend, recoveryGain |-> recoveryGain,
        baseStiffness |-> baseStiffness, ringConstraints |-> ringConstraints,
        spokeConstraints |-> spokeConstraints, baseRadius |-> baseRadius,
        anchors |-> anchors, cons |-> cons, nextGen |-> FreshGen,
        phases |-> phases, lastCall |-> lastCall, steps |-> steps,
        bods |-> bods, walls |-> walls, width |-> width, height |-> height,
        anchorKBase |-> anchorKBase, anchorKInteract |-> anchorKInteract,
        snapped |-> snapped, nearby |-> nearby, builtAs |-> builtAs]

\* objects no field, list or map of the engine refers to are collected
Live(e) ==
  e.world \cup SeqToSet(e.ringConstraints) \cup SeqToSet(e.spokeConstraints)
          \cup (DOMAIN e.baseStiffness)
          \cup (IF e.softBody = NULL THEN {}
                ELSE SeqToSet(e.softBody.constraints) \cup SeqToSet(e.softBody.outer)
                       \cup {e.softBody.center})

Commit(e) ==
  LET live == Live(e)
  IN /\ world' = e.world
     /\ softBody' = e.softBody
     /\ isInteracting' = e.isInteracting
     /\ interactBlend' = e.interactBlend
     /\ recoveryGain' = e.recoveryGain
     /\ baseStiffness' = e.baseStiffness
     /\ ringConstraints' = e.ringConstraints
     /\ spokeConstraints' = e.spokeConstraints
     /\ baseRadius' = e.baseRadius
     /\ anchors' = e.anchors
     /\ cons' = Restrict(e.cons, live)
     /\ phases' = e.phases
     /\ lastCall' = e.lastCall
     /\ steps' = e.steps
     /\ bods' = Restrict(e.bods, live)
     /\ walls' = e.walls
     /\ width' = e.width
     /\ height' = e.height
     /\ anchorKBase' = e.anchorKBase
     /\ anchorKInteract' = e.anchorKInteract
     /\ snapped' = e.snapped
     /\ nearby' = e.nearby
     /\ builtAs' = e.builtAs

Bd(g, i) == <<"B", g, i>>
Cn(g, k) == <<"C", g, k>>
Bodies(sb) == {sb.center} \cup SeqToSet(sb.outer)
Members(sb) == Bodies(sb) \cup SeqToSet(sb.constraints)

\* Constraint.create({ bodyA, bodyB, stiffness, length })
Constraint(a, b, s, len) == [bodyA |-> a, bodyB |-> b, stiffness |-> s, length |-> len]

\* Bodies.circle(x, y, 12, { frictionAir })
Circle(x, y, fa) == [pos |-> <<x, y>>, vel |-> <<0, 0>>, force |-> <<0, 0>>, frictionAir |-> fa]

\* (cos, sin) of 2 * pi * i / n in 1/1000, for the 0-based index i
UnitCircle(n, i) ==
  CASE n = 1 -> <<1000, 0>>
    [] n = 2 -> <<<<1000, 0>>, <<-1000, 0>>>>[i + 1]
    [] n = 3 -> <<<<1000, 0>>, <<-500, 866>>, <<-500, -866>>>>[i + 1]
    [] n = 4 -> <<<<1000, 0>>, <<0, 1000>>, <<-1000, 0>>, <<0, -1000>>>>[i + 1]
    [] n = 5 -> <<<<1000, 0>>, <<309, 951>>, <<-809, 588>>, <<-809, -588>>, <<309, -951>>>>[i + 1]
    [] n = 6 -> <<<<1000, 0>>, <<500, 866>>, <<-500, 866>>, <<-1000, 0>>, <<-500, -866>>,
                  <<500, -866>>>>[i + 1]

Dist(p, q) == Hypot(p[1] - q[1], p[2] - q[2])

\* ------------------------------------------------------- PhysicsEngine
\* outer[(i + off) % circleCount] for the 0-based index i - 1
Ahead(i, off, n) == ((i - 1 + off) % n) + 1

setInteracting(e, active) ==
  [e EXCEPT !.isInteracting = active,
            !.lastCall = <<"setInteracting", IF active THEN 1 ELSE 0>>]

\* World.add, the zeroing of the velocities, baseStiffness.set and the softBody
\* assignment shared by the two builders
Install(e, center, outer, circles, objs, nRing) ==
  LET g == e.nextGen
      ids == [k \in 1..Len(objs) |-> Cn(g, k)]
      idSet == SeqToSet(ids)
      newCons == [c \in idSet |-> objs[c[3]]]
      newBods == {center} \cup SeqToSet(outer)
  IN [e EXCEPT
        !.ringConstraints = @ \o SubSeq(ids, 1, nRing),
        !.spokeConstraints = @ \o SubSeq(ids, nRing + 1, Len(ids)),
        !.world = @ \cup newBods \cup idSet,
        !.cons = [c \in (DOMAIN @) \cup idSet |->
                    IF c \in idSet THEN newCons[c] ELSE @[c]],
        !.bods = [b \in (DOMAIN @) \cup newBods |->
                    IF b \in newBods THEN [circles[b] EXCEPT !.vel = <<0, 0>>] ELSE @[b]],
        !.baseStiffness = [c \in (DOMAIN @) \cup idSet |->
                    IF c \in idSet THEN newCons[c].stiffness ELSE @[c]],
        !.softBody = [center |-> center, outer |-> outer, constraints |-> ids]]

\* the position of outer point i (1-based) of a ring
RingPoint(x, y, radius, n, i) ==
  <<x * Px + Quot(UnitCircle(n, i - 1)[1] * radius * Px, 1000),
    y * Px + Quot(UnitCircle(n, i - 1)[2] * radius * Px, 1000)>>

\* createSoftDonut without the parity test on the diameter layer
createSoftDonutAlwaysDiameter(e, x, y, radius, circleCount) ==
  LET g == e.nextGen
      n == circleCount
      center == Bd(g, 0)
      outer == [i \in 1..n |-> Bd(g, i)]
      at == [i \in 1..n |-> RingPoint(x, y, radius, n, i)]
      circles == [b \in {center} \cup SeqToSet(outer) |->
                    IF b = center THEN Circle(x * Px, y * Px, frictionAirCenter)
                    ELSE Circle(at[b[3]][1], at[b[3]][2], frictionAirOuter)]
      link(i, off, s) == Constraint(outer[i], outer[Ahead(i, off, n)], s,
                                    Dist(at[i], at[Ahead(i, off, n)]))
      layer(off, s) == [i \in 1..n |-> link(i, off, s)]
      ring == layer(1, sNeighbor) \o layer(2, sSecond) \o layer(3, sThird)
                \o layer(n \div 2, sDiameter)
      spokes == [i \in 1..n |-> Constraint(outer[i], center, sSpoke, radius * Px)]
      built == Install([e EXCEPT !.baseRadius = radius], center, outer, circles,
                       ring \o spokes, Len(ring))
  IN [built EXCEPT !.anchors = NoAnchors,
                   !.builtAs = "ring",
                   !.lastCall = <<"createSoftDonut", circleCount, x, y, radius>>]

createSoftDonut(e, x, y, radius, circleCount) ==
  LET g == e.nextGen
      n == circleCount
      center == Bd(g, 0)
      outer == [i \in 1..n |-> Bd(g, i)]
      at == [i \in 1..n |-> RingPoint(x, y, radius, n, i)]
      circles == [b \in {center} \cup SeqToSet(outer) |->
                    IF b = center THEN Circle(x * Px, y * Px, frictionAirCenter)
                    ELSE Circle(at[b[3]][1], at[b[3]][2], frictionAirOuter)]
      link(i, off, s) == Constraint(outer[i], outer[Ahead(i, off, n)], s,
                                    Dist(at[i], at[Ahead(i, off, n)]))
      layer(off, s) == [i \in 1..n |-> link(i, off, s)]
      diameter == IF n % 2 = 0 THEN layer(n \div 2, sDiameter) ELSE <<>>
      ring == layer(1, sNeighbor) \o layer(2, sSecond) \o layer(3, sThird) \o diameter
      spokes == [i \in 1..n |-> Constraint(outer[i], center, sSpoke, radius * Px)]
      built == Install([e EXCEPT !.baseRadius = radius], center, outer, circles,
                       ring \o spokes, Len(ring))
  IN [built EXCEPT !.anchors = NoAnchors,
                   !.builtAs = "ring",
                   !.lastCall = <<"createSoftDonut", circleCount, x, y, radius>>]

RECURSIVE SumSeq(_)
SumSeq(q) == IF q = <<>> THEN 0 ELSE Head(q) + SumSeq(Tail(q))

\* createSoftAnchored storing the anchors ahead of the test on their number
createSoftAnchoredStoreFirst(e, anch) ==
  LET g == e.nextGen
      n == Len(anch)
      cx == Quot(SumSeq([i \in 1..n |-> anch[i][1] * Px]), n)
      cy == Quot(SumSeq([i \in 1..n |-> anch[i][2] * Px]), n)
      center == Bd(g, 0)
      outer == [i \in 1..n |-> Bd(g, i)]
      at == [i \in 1..n |-> <<anch[i][1] * Px, anch[i][2] * Px>>]
      circles == [b \in {center} \cup SeqToSet(outer) |->
                    IF b = center THEN Circle(cx, cy, frictionAirCenter)
                    ELSE Circle(at[b[3]][1], at[b[3]][2], frictionAirOuter)]
      link(i, off, s) == Constraint(outer[i], outer[Ahead(i, off, n)], s,
                                    Dist(at[i], at[Ahead(i, off, n)]))
      neighbor == [i \in 1..n |-> link(i, 1, sNeighbor)]
      smoothing == [j \in 1..(2 * n) |->
                      IF j % 2 = 1 THEN link((j + 1) \div 2, 2, sSecond)
                      ELSE link(j \div 2, 3, sThird)]
      ring == neighbor \o smoothing
      spokes == [i \in 1..n |-> Constraint(outer[i], center, sSpoke, Dist(at[i], <<cx, cy>>))]
      called == [e EXCEPT !.anchors = anch, !.lastCall = <<"createSoftAnchored", n>>]
  IN IF n < 3 THEN called
     ELSE [Install(called, center, outer, circles, ring \o spokes, Len(ring))
             EXCEPT !.anchors = anch, !.builtAs = "anchors"]

createSoftAnchored(e, anch) ==
  LET g == e.nextGen
      n == Len(anch)
      cx == Quot(SumSeq([i \in 1..n |-> anch[i][1] * Px]), n)
      cy == Quot(SumSeq([i \in 1..n |-> anch[i][2] * Px]), n)
      center == Bd(g, 0)
      outer == [i \in 1..n |-> Bd(g, i)]
      at == [i \in 1..n |-> <<anch[i][1] * Px, anch[i][2] * Px>>]
      circles == [b \in {center} \cup SeqToSet(outer) |->
                    IF b = center THEN Circle(cx, cy, frictionAirCenter)
                    ELSE Circle(at[b[3]][1], at[b[3]][2], frictionAirOuter)]
      link(i, off, s) == Constraint(outer[i], outer[Ahead(i, off, n)], s,
                                    Dist(at[i], at[Ahead(i, off, n)]))
      neighbor == [i \in 1..n |-> link(i, 1, sNeighbor)]
      smoothing == [j \in 1..(2 * n) |->
                      IF j % 2 = 1 THEN link((j + 1) \div 2, 2, sSecond)
                      ELSE link(j \div 2, 3, sThird)]
      ring == neighbor \o smoothing
      spokes == [i \in 1..n |-> Constraint(outer[i], center, sSpoke, Dist(at[i], <<cx, cy>>))]
      called == [e EXCEPT !.lastCall = <<"createSoftAnchored", n>>]
  IN IF n < 3 THEN called
     ELSE [Install(called, center, outer, circles, ring \o spokes, Len(ring))
             EXCEPT !.anchors = anch, !.builtAs = "anchors"]

\* the teardown without the reset of the interaction blend
TeardownKeepBlend(e) ==
  [e EXCEPT
     !.world = IF e.softBody = NULL THEN @ ELSE @ \ Members(e.softBody),
     !.softBody = NULL,
     !.builtAs = "none",
     !.ringConstraints = <<>>,
     !.spokeConstraints = <<>>,
     !.baseStiffness = <<>>,
     !.recoveryGain = 0]

\* the teardown both resets start with
Teardown(e) ==
  [e EXCEPT
     !.world = IF e.softBody = NULL THEN @ ELSE @ \ Members(e.softBody),
     !.softBody = NULL,
     !.builtAs = "none",
     !.ringConstraints = <<>>,
     !.spokeConstraints = <<>>,
     !.baseStiffness = <<>>,
     !.recoveryGain = 0,
     !.interactBlend = 0]

\* resetSoftDonut leaving the anchors of the body it replaces in place
resetSoftDonutKeepAnchors(e, x, y, radius, circleCount) ==
  [createSoftDonut(Teardown(e), x, y, radius, circleCount)
     EXCEPT !.anchors = e.anchors, !.lastCall = <<"resetSoftDonut", circleCount, x, y, radius>>]

resetSoftDonut(e, x, y, radius, circleCount) ==
  [createSoftDonut(Teardown(e), x, y, radius, circleCount)
     EXCEPT !.lastCall = <<"resetSoftDonut", circleCount, x, y, radius>>]

\* resetSoftAnchored without the clearing of the ring-constraint list
resetSoftAnchoredKeepRing(e, anch) ==
  [createSoftAnchored([Teardown(e) EXCEPT !.ringConstraints = e.ringConstraints], anch)
     EXCEPT !.lastCall = <<"resetSoftAnchored", Len(anch)>>]

resetSoftAnchored(e, anch) ==
  [createSoftAnchored(Teardown(e), anch) EXCEPT !.lastCall = <<"resetSoftAnchored", Len(anch)>>]

\* the scale factors of applyConstraintSoftening
OutBlend(e) ==
  IF e.isInteracting THEN e.interactBlend ELSE Sub(One, Pow15(e.recoveryGain))
RingScale(e) == Sub(One, DivC(Mul(100 - ringSoft, OutBlend(e)), 100))
SpokeScale(e) == Sub(One, DivC(Mul(100 - spokeSoft, OutBlend(e)), 100))

\* base * scale
Scaled(base, scale) == DivC(Mul(base, scale), One)

\* the base read back from the constraint itself, so that scaling compounds
BaseOfCurrent(e, c) == e.cons[c].stiffness

BaseOf(e, c) == IF c \in DOMAIN e.baseStiffness THEN e.baseStiffness[c] ELSE e.cons[c].stiffness

\* applyConstraintSoftening recording the scaled stiffness as the new base
applyConstraintSofteningRecordBase(e) ==
  LET logged == [e EXCEPT !.phases = Append(@, "soften")]
      ringSet == SeqToSet(e.ringConstraints)
      spokeSet == SeqToSet(e.spokeConstraints)
      ringScale == RingScale(e)
      spokeScale == SpokeScale(e)
      afterRing == [c \in DOMAIN e.cons |->
                      IF c \in ringSet
                      THEN [e.cons[c] EXCEPT !.stiffness = Scaled(BaseOf(e, c), ringScale)]
                      ELSE e.cons[c]]
      afterSpoke == [c \in DOMAIN e.cons |->
                      IF c \in spokeSet
                      THEN [afterRing[c] EXCEPT !.stiffness = Scaled(BaseOf(e, c), spokeScale)]
                      ELSE afterRing[c]]
  IN IF e.softBody = NULL THEN logged ELSE [logged EXCEPT !.cons = afterSpoke,
                       !.baseStiffness = [c \in DOMAIN @ |-> afterSpoke[c].stiffness]]

applyConstraintSoftening(e) ==
  LET logged == [e EXCEPT !.phases = Append(@, "soften")]
      ringSet == SeqToSet(e.ringConstraints)
      spokeSet == SeqToSet(e.spokeConstraints)
      ringScale == RingScale(e)
      spokeScale == SpokeScale(e)
      afterRing == [c \in DOMAIN e.cons |->
                      IF c \in ringSet
                      THEN [e.cons[c] EXCEPT !.stiffness = Scaled(BaseOf(e, c), ringScale)]
                      ELSE e.cons[c]]
      afterSpoke == [c \in DOMAIN e.cons |->
                      IF c \in spokeSet
                      THEN [afterRing[c] EXCEPT !.stiffness = Scaled(BaseOf(e, c), spokeScale)]
                      ELSE afterRing[c]]
  IN IF e.softBody = NULL THEN logged ELSE [logged EXCEPT !.cons = afterSpoke]

\* Body.applyForce(body, body.position, f) and Body.setVelocity(body, v)
applyForce(body, f) == [body EXCEPT !.force = <<@[1] + f[1], @[2] + f[2]>>]
setVelocity(body, v) == [body EXCEPT !.vel = v]
Damped(v, pct) == <<Quot(v[1] * pct, 100), Quot(v[2] * pct, 100)>>

\* the gain k of applyRadialPressure
RadialGain(e) ==
  IF e.isInteracting
  THEN radialBaseK + Quot(Sat(radialInteractKMax - radialBaseK, e.interactBlend), One)
  ELSE radialBaseK + Quot(Sat(radialRecoverKMax - radialBaseK, e.recoveryGain), One)

applyRadialPressure(e) ==
  LET logged == [e EXCEPT !.phases = Append(@, "radial")]
      sb == e.softBody
      c == e.bods[sb.center].pos
      k == RadialGain(e)
      clampMax == (e.baseRadius * Px * clampMaxPct) \div 100
      pushed(body) ==
        LET dx == body.pos[1] - c[1]
            dy == body.pos[2] - c[2]
            h == Hypot(dx, dy)
            r == IF h = 0 THEN Px ELSE h
            nx == Quot(dx * 1000, r)
            ny == Quot(dy * 1000, r)
            dr == e.baseRadius * Px - r
            first == applyForce(body, <<Force(MulDiv(nx, dr, 1000), k),
                                        Force(MulDiv(ny, dr, 1000), k)>>)
            over == r - clampMax
        IN IF r > clampMax
           THEN applyForce(first, <<Force(MulDiv(-nx, over, 1000), radialKClamp),
                                    Force(MulDiv(-ny, over, 1000), radialKClamp)>>)
           ELSE first
  IN IF sb = NULL THEN logged
     ELSE LET outerSet == SeqToSet(sb.outer)
          IN [logged EXCEPT !.bods = [b \in DOMAIN @ |->
                              IF b \in outerSet THEN pushed(@[b]) ELSE @[b]]]

\* applyAnchorAttraction with the snap taken whether or not a pointer is down
applyAnchorAttractionSnapAlways(e) ==
  LET logged == [e EXCEPT !.phases = Append(@, "anchor")]
      sb == e.softBody
      k == IF e.isInteracting THEN e.anchorKInteract ELSE e.anchorKBase
      damp == IF e.isInteracting THEN anchorDampInteract ELSE anchorDampIdle
      count == Min(Len(sb.outer), Len(e.anchors))
      target(i) == <<e.anchors[i][1] * Px, e.anchors[i][2] * Px>>
      near(i) == Dist(target(i), e.bods[sb.outer[i]].pos) < anchorSnapDist
      pulled(body, i) ==
        LET dx == target(i)[1] - body.pos[1]
            dy == target(i)[2] - body.pos[2]
            forced == applyForce(body, <<Force(dx, k), Force(dy, k)>>)
        IN IF near(i)
           THEN [body EXCEPT !.pos = target(i), !.vel = <<0, 0>>]
           ELSE IF ~e.isInteracting THEN setVelocity(forced, Damped(forced.vel, damp))
           ELSE forced
      slot(b) == CHOOSE i \in 1..count : sb.outer[i] = b
  IN IF sb = NULL \/ e.anchors = NoAnchors THEN logged
     ELSE [logged EXCEPT
             !.snapped = {i \in 1..count : near(i)},
             !.nearby = {i \in 1..count : near(i)},
             !.bods = [b \in DOMAIN @ |->
                         IF \E i \in 1..count : sb.outer[i] = b
                         THEN pulled(@[b], slot(b)) ELSE @[b]]]

applyAnchorAttraction(e) ==
  LET logged == [e EXCEPT !.phases = Append(@, "anchor")]
      sb == e.softBody
      k == IF e.isInteracting THEN e.anchorKInteract ELSE e.anchorKBase
      damp == IF e.isInteracting THEN anchorDampInteract ELSE anchorDampIdle
      count == Min(Len(sb.outer), Len(e.anchors))
      target(i) == <<e.anchors[i][1] * Px, e.anchors[i][2] * Px>>
      near(i) == Dist(target(i), e.bods[sb.outer[i]].pos) < anchorSnapDist
      pulled(body, i) ==
        LET dx == target(i)[1] - body.pos[1]
            dy == target(i)[2] - body.pos[2]
            forced == applyForce(body, <<Force(dx, k), Force(dy, k)>>)
        IN IF near(i) /\ ~e.isInteracting
           THEN [body EXCEPT !.pos = target(i), !.vel = <<0, 0>>]
           ELSE IF ~e.isInteracting THEN setVelocity(forced, Damped(forced.vel, damp))
           ELSE forced
      slot(b) == CHOOSE i \in 1..count : sb.outer[i] = b
  IN IF sb = NULL \/ e.anchors = NoAnchors THEN logged
     ELSE [logged EXCEPT
             !.snapped = {i \in 1..count : near(i) /\ ~e.isInteracting},
             !.nearby = {i \in 1..count : near(i)},
             !.bods = [b \in DOMAIN @ |->
                         IF \E i \in 1..count : sb.outer[i] = b
                         THEN pulled(@[b], slot(b)) ELSE @[b]]]

\* Body.update of the library: velocity from the last displacement, air
\* friction and the accumulated force, then the move
BodyUpdate(body, deltaMs) ==
  LET accel(f) == MulDiv(Quot(f, circleMass), deltaMs * deltaMs, 1000)
      vx == Clip(Quot(body.vel[1] * (1000 - body.frictionAir), 1000) + accel(body.force[1]))
      vy == Clip(Quot(body.vel[2] * (1000 - body.frictionAir), 1000) + accel(body.force[2]))
  IN [body EXCEPT !.vel = <<vx, vy>>,
                  !.pos = <<Clip(@[1] + vx), Clip(@[2] + vy)>>,
                  !.force = <<0, 0>>]

\* Engine.update(this.engine, deltaMs)
EngineUpdate(e, deltaMs) ==
  [e EXCEPT !.phases = Append(@, "integrate"),
            !.bods = [b \in DOMAIN @ |->
                        IF b \in e.world THEN BodyUpdate(@[b], deltaMs) ELSE @[b]]]

\* applyBoundarySqueeze with the left edge pushing outward
applyBoundarySqueezeOutward(e) ==
  LET logged == [e EXCEPT !.phases = Append(@, "boundary")]
      sb == e.softBody
      kx == IF e.isInteracting THEN squeezeKInteract ELSE squeezeKBase
      ky == IF e.isInteracting THEN squeezeKInteract ELSE squeezeKBase
      damp == IF e.isInteracting THEN squeezeDampInteract ELSE squeezeDampIdle
      squeezed(body, isOuter) ==
        LET x == body.pos[1]
            y == body.pos[2]
            fx == (IF x < marginX * Px THEN Force(x - marginX * Px, kx) ELSE 0)
                  - (IF x > (e.width - marginX) * Px
                     THEN Force(x - (e.width - marginX) * Px, kx) ELSE 0)
            fy == (IF y < marginY * Px THEN Force(marginY * Px - y, ky) ELSE 0)
                  - (IF y > (e.height - marginY) * Px
                     THEN Force(y - (e.height - marginY) * Px, ky) ELSE 0)
            scale == IF isOuter THEN squeezeScaleOuter ELSE squeezeScaleCenter
            sx == Quot(fx, 10) * scale
            sy == Quot(fy, 10) * scale
        IN IF sx # 0 \/ sy # 0
           THEN setVelocity(applyForce(body, <<sx, sy>>), Damped(body.vel, damp))
           ELSE body
  IN IF sb = NULL THEN logged
     ELSE LET outerSet == SeqToSet(sb.outer)
          IN [logged EXCEPT !.bods = [b \in DOMAIN @ |->
                              IF b = sb.center \/ b \in outerSet
                              THEN squeezed(@[b], b \in outerSet) ELSE @[b]]]

applyBoundarySqueeze(e) ==
  LET logged == [e EXCEPT !.phases = Append(@, "boundary")]
      sb == e.softBody
      kx == IF e.isInteracting THEN squeezeKInteract ELSE squeezeKBase
      ky == IF e.isInteracting THEN squeezeKInteract ELSE squeezeKBase
      damp == IF e.isInteracting THEN squeezeDampInteract ELSE squeezeDampIdle
      squeezed(body, isOuter) ==
        LET x == body.pos[1]
            y == body.pos[2]
            fx == (IF x < marginX * Px THEN Force(marginX * Px - x, kx) ELSE 0)
                  - (IF x > (e.width - marginX) * Px
                     THEN Force(x - (e.width - marginX) * Px, kx) ELSE 0)
            fy == (IF y < marginY * Px THEN Force(marginY * Px - y, ky) ELSE 0)
                  - (IF y > (e.height - marginY) * Px
                     THEN Force(y - (e.height - marginY) * Px, ky) ELSE 0)
            scale == IF isOuter THEN squeezeScaleOuter ELSE squeezeScaleCenter
            sx == Quot(fx, 10) * scale
            sy == Quot(fy, 10) * scale
        IN IF sx # 0 \/ sy # 0
           THEN setVelocity(applyForce(body, <<sx, sy>>), Damped(body.vel, damp))
           ELSE body
  IN IF sb = NULL THEN logged
     ELSE LET outerSet == SeqToSet(sb.outer)
          IN [logged EXCEPT !.bods = [b \in DOMAIN @ |->
                              IF b = sb.center \/ b \in outerSet
                              THEN squeezed(@[b], b \in outerSet) ELSE @[b]]]

\* Bodies.rectangle(x, y, w, h, { isStatic: true })
Rectangle(x, y, w, h) == [x |-> x, y |-> y, w |-> w, h |-> h]

setBounds(e, w, h) ==
  LET half == wallThickness \div 2
  IN [e EXCEPT
        !.width = w,
        !.height = h,
        !.walls = <<Rectangle(w \div 2, -half, w + wallThickness, wallThickness),
                    Rectangle(w \div 2, h + half, w + wallThickness, wallThickness),
                    Rectangle(-half, h \div 2, wallThickness, h + wallThickness),
                    Rectangle(w + half, h \div 2, wallThickness, h + wallThickness)>>,
        !.lastCall = <<"setBounds", w>>]

\* setFrictionAir without the lower clamp
setFrictionAirNoFloor(e, outer, center) ==
  LET sb == e.softBody
      called == [e EXCEPT !.lastCall = <<"setFrictionAir", 0>>]
      set(b, v) == IF v = Undef THEN b ELSE [b EXCEPT !.frictionAir = Min(1000, v)]
  IN IF sb = NULL THEN called
     ELSE [called EXCEPT !.bods = [b \in DOMAIN @ |->
                           IF b = sb.center THEN set(@[b], center)
                           ELSE IF b \in SeqToSet(sb.outer) THEN set(@[b], outer)
                           ELSE @[b]]]

setFrictionAir(e, outer, center) ==
  LET sb == e.softBody
      called == [e EXCEPT !.lastCall = <<"setFrictionAir", 0>>]
      set(b, v) == IF v = Undef THEN b ELSE [b EXCEPT !.frictionAir = Max(0, Min(1000, v))]
  IN IF sb = NULL THEN called
     ELSE [called EXCEPT !.bods = [b \in DOMAIN @ |->
                           IF b = sb.center THEN set(@[b], center)
                           ELSE IF b \in SeqToSet(sb.outer) THEN set(@[b], outer)
                           ELSE @[b]]]

setAnchorStrength(e, base, interact) ==
  [e EXCEPT !.anchorKBase = Max(0, base),
            !.anchorKInteract = IF interact = Undef THEN @ ELSE Max(0, interact),
            !.lastCall = <<"setAnchorStrength", 0>>]

hasAnchors(e) == e.anchors # NoAnchors /\ Len(e.anchors) > 0

\* the blend and recovery ramp at the head of update
AdvanceBlend(e, deltaMs) ==
  LET target == IF e.isInteracting THEN One ELSE 0
      tau == IF e.isInteracting THEN tauInteract ELSE tauIdle
  IN [e EXCEPT
        !.interactBlend = @ + ((target - @) * Min(tau, deltaMs)) \div tau,
        !.recoveryGain = IF e.isInteracting THEN 0 ELSE Min(One, @ + deltaMs),
        !.phases = <<"blend">>,
        !.snapped = {},
        !.nearby = {},
        !.lastCall = <<"update", deltaMs>>,
        !.steps = @ + 1]

\* update with boundary containment ahead of the integration
updateBoundaryFirst(e, deltaMs) ==
  LET e1 == AdvanceBlend(e, deltaMs)
      e2 == applyConstraintSoftening(e1)
      e3 == IF e2.anchors # NoAnchors THEN applyAnchorAttraction(e2) ELSE applyRadialPressure(e2)
      e4 == applyBoundarySqueeze(e3)
  IN EngineUpdate(e4, deltaMs)

update(e, deltaMs) ==
  LET e1 == AdvanceBlend(e, deltaMs)
      e2 == applyConstraintSoftening(e1)
      e3 == IF e2.anchors # NoAnchors THEN applyAnchorAttraction(e2) ELSE applyRadialPressure(e2)
      e4 == EngineUpdate(e3, deltaMs)
  IN applyBoundarySqueeze(e4)

\* the engine's construction and reset methods with arguments from given sets
CreateSoftDonutWith(counts) ==
  /\ \E c \in Centers, r \in Radii, n \in counts :
        Commit(createSoftDonut(Eng, c[1], c[2], r, n))
  /\ UNCHANGED gmVars

CreateSoftAnchoredWith(lists) ==
  /\ \E a \in lists : Commit(createSoftAnchored(Eng, a))
  /\ UNCHANGED gmVars

ResetSoftDonutWith(counts) ==
  /\ \E c \in Centers, r \in Radii, n \in counts :
        Commit(resetSoftDonut(Eng, c[1], c[2], r, n))
  /\ UNCHANGED gmVars

ResetSoftAnchoredWith(lists) ==
  /\ \E a \in lists : Commit(resetSoftAnchored(Eng, a))
  /\ UNCHANGED gmVars

\* the four methods called in any order
CreateSoftDonut ==
  Cardinality({o[2] : o \in world}) < MaxBuilds /\ CreateSoftDonutWith(Counts)

CreateSoftAnchored ==
  Cardinality({o[2] : o \in world}) < MaxBuilds /\ CreateSoftAnchoredWith(AnchorLists)

ResetSoftDonut == ResetSoftDonutWith(Counts)

ResetSoftAnchored == ResetSoftAnchoredWith(AnchorLists)

\* a caller that constructs only while no soft body is live, then resets and steps
BuildRing == softBody = NULL /\ CreateSoftDonutWith(StepCounts)

BuildAnchored == softBody = NULL /\ CreateSoftAnchoredWith(StepAnchors)

RebuildRing == ResetSoftDonutWith(StepCounts)

RebuildAnchored == ResetSoftAnchoredWith(StepAnchors)

SetInteracting ==
  /\ \E b \in BOOLEAN : Commit(setInteracting(Eng, b))
  /\ UNCHANGED gmVars

SetBounds ==
  /\ \E b \in BoundsValues : Commit(setBounds(Eng, b[1], b[2]))
  /\ UNCHANGED gmVars

SetFrictionAir ==
  /\ \E d \in DampingValues : Commit(setFrictionAir(Eng, d[1], d[2]))
  /\ UNCHANGED gmVars

SetAnchorStrength ==
  /\ \E k \in StrengthValues : Commit(setAnchorStrength(Eng, k[1], k[2]))
  /\ UNCHANGED gmVars

Update ==
  /\ steps < MaxSteps
  /\ \E dt \in DtValues : Commit(update(Eng, dt))
  /\ UNCHANGED gmVars

Init ==
  /\ world = {}
  /\ softBody = NULL
  /\ isInteracting = FALSE
  /\ interactBlend = 0
  /\ recoveryGain = 0
  /\ baseStiffness = <<>>
  /\ ringConstraints = <<>>
  /\ spokeConstraints = <<>>
  /\ baseRadius = defaultRadius
  /\ anchors = NoAnchors
  /\ cons = <<>>
  /\ phases = <<>>
  /\ lastCall = <<"new", 0>>
  /\ steps = 0
  /\ bods = <<>>
  /\ walls = <<>>
  /\ width = 0
  /\ height = 0
  /\ anchorKBase = anchorKBase0
  /\ anchorKInteract = anchorKInteract0
  /\ snapped = {}
  /\ nearby = {}
  /\ builtAs = "none"
  /\ input = NULL
  /\ started = FALSE
  /\ running = FALSE
  /\ lastTs = 0
  /\ interacting = FALSE
  /\ touched = {}

BuildNext ==
  \/ CreateSoftDonut
  \/ CreateSoftAnchored
  \/ ResetSoftDonut
  \/ ResetSoftAnchored

BuildSpec == Init /\ [][BuildNext]_vars

Next ==
  \/ BuildRing
  \/ BuildAnchored
  \/ RebuildRing
  \/ RebuildAnchored
  \/ SetInteracting
  \/ SetBounds
  \/ Update

Spec == Init /\ [][Next]_vars

\* one update of a frame's length
Step ==
  /\ steps < MaxSteps
  /\ Commit(update(Eng, frameDefault))
  /\ UNCHANGED gmVars

\* one build followed by the tuning setters and steps in any order
TuneNext ==
  \/ BuildRing
  \/ BuildAnchored
  \/ SetInteracting
  \/ SetBounds
  \/ SetFrictionAir
  \/ SetAnchorStrength
  \/ Step

TuneSpec == Init /\ [][TuneNext]_vars

\* construction on top of a live body
StackRing ==
  Cardinality({o[2] : o \in world}) < MaxBuilds /\ CreateSoftDonutWith(StepCounts)

StackAnchored ==
  Cardinality({o[2] : o \in world}) < MaxBuilds /\ CreateSoftAnchoredWith(StepAnchors)

\* builds in any order, stacked ones included, with anchored resets and steps
StackNext ==
  \/ StackRing
  \/ StackAnchored
  \/ RebuildAnchored
  \/ Step

StackSpec == Init /\ [][StackNext]_vars

\* ------------------------------------------------------ InputController
\* a controller built over the bodies the engine held before the reset
NewInputStale(e) ==
  [bodies |-> IF softBody = NULL THEN <<>>
              ELSE <<softBody.center>> \o softBody.outer,
   pointers |-> <<>>,
   spots |-> <<>>,
   lastPinchDist |-> Undef,
   attached |-> TRUE]

\* new InputController(canvas, bodies, onInteractChange) followed by attach()
NewInput(e) ==
  [bodies |-> IF e.softBody = NULL THEN <<>>
              ELSE <<e.softBody.center>> \o e.softBody.outer,
   pointers |-> <<>>,
   spots |-> <<>>,
   lastPinchDist |-> Undef,
   attached |-> TRUE]

detach(inp) == [inp EXCEPT !.pointers = <<>>, !.spots = <<>>, !.attached = FALSE]

\* the body a pointer at the given spot picks: the first rim point, or
\* nothing when every body is beyond the threshold
pickNearest(bodies, spot) ==
  IF spot = "rim" /\ Len(bodies) >= 2 THEN bodies[2] ELSE NoTarget

Tracked == IF input = NULL THEN {} ELSE DOMAIN input.pointers

\* the callback GameManager hands to the controller
onInteractChange(active) ==
  /\ Commit(setInteracting(Eng, active))
  /\ interacting' = active

onPointerDown(id, spot) ==
  /\ input' = [input EXCEPT !.pointers =
                 [p \in (DOMAIN @) \cup {id} |->
                    IF p = id THEN pickNearest(input.bodies, spot) ELSE @[p]],
                             !.spots =
                 [p \in (DOMAIN @) \cup {id} |-> IF p = id THEN spot ELSE @[p]]]
  /\ onInteractChange(TRUE)

onPointerUp(id) ==
  IF id \notin DOMAIN input.pointers
  THEN UNCHANGED <<engineVars, input, interacting>>
  ELSE /\ input' = [input EXCEPT !.pointers = Restrict(@, (DOMAIN @) \ {id}),
                                 !.spots = Restrict(@, (DOMAIN @) \ {id}),
                                 !.lastPinchDist =
                                   IF Cardinality(DOMAIN input.pointers) < 3
                                   THEN Undef ELSE @]
       /\ IF DOMAIN input.pointers = {id}
          THEN onInteractChange(FALSE)
          ELSE UNCHANGED <<engineVars, interacting>>

\* the pairs (a, b) applyPinchForces may take: a holds a target when some
\* pointer does, b is another pointer and holds a target when another one
\* does; which pointers they are depends on the order of the presses
PinchPairs(c) ==
  LET ids == DOMAIN c.pointers
      held == {p \in ids : c.pointers[p] # NoTarget}
  IN {pr \in ids \X ids :
        /\ pr[1] # pr[2]
        /\ (held # {} => pr[1] \in held)
        /\ (held \ {pr[1]} # {} => pr[2] \in held)}

\* applyPinchForces() of controller c on the bodies bs, for the pair pr, with the
\* distance and the midpoint of the two pointers (pixels) as the event gives
\* them; the result carries the bodies a force was applied to
applyPinchForces(bs0, c, pr, dist, mid) ==
  LET a == pr[1]
      b == pr[2]
      ta == IF c.pointers[a] = NoTarget
            THEN pickNearest(c.bodies, c.spots[a]) ELSE c.pointers[a]
      tb == IF c.pointers[b] = NoTarget
            THEN pickNearest(c.bodies, c.spots[b]) ELSE c.pointers[b]
      picked == [c EXCEPT !.pointers[a] = ta, !.pointers[b] = tb]
      pinchDelta == c.lastPinchDist - dist
      sign == IF pinchDelta > 0 THEN 1 ELSE -1
      magnitude == Min(pinchCap, Abs(pinchDelta)) * Px
      applyTowardsMid(bs, t) ==
        IF t \notin DOMAIN bs THEN bs
        ELSE LET vx == mid[1] * Px - bs[t].pos[1]
                 vy == mid[2] * Px - bs[t].pos[2]
                 h == Hypot(vx, vy)
                 len == IF h = 0 THEN Px ELSE h
                 nx == Quot(vx * 1000, len)
                 ny == Quot(vy * 1000, len)
             IN [bs EXCEPT ![t] = applyForce(@,
                   <<Force(MulDiv(nx * sign, magnitude, 1000), pinchGain),
                     Force(MulDiv(ny * sign, magnitude, 1000), pinchGain)>>)]
  IN IF ta = NoTarget \/ tb = NoTarget \/ dist <= 0
     THEN [bods |-> bs0, input |-> picked, touched |-> {}]
     ELSE IF c.lastPinchDist = Undef
     THEN [bods |-> bs0, input |-> [picked EXCEPT !.lastPinchDist = dist], touched |-> {}]
     ELSE [bods |-> applyTowardsMid(applyTowardsMid(bs0, ta), tb),
           input |-> [picked EXCEPT !.lastPinchDist = dist],
           touched |-> {ta, tb}]

\* pointermove of pointer id to the given spot, delta pixels from its last
\* position
onPointerMove(id, spot, delta, dist, mid) ==
  IF id \notin DOMAIN input.pointers
  THEN UNCHANGED <<engineVars, input>> /\ touched' = {}
  ELSE LET moved == [input EXCEPT !.spots[id] = spot]
           target == input.pointers[id]
           dragged ==
             IF target \notin DOMAIN bods THEN bods
             ELSE [bods EXCEPT ![target] = applyForce(@,
                     <<Force(delta[1] * Px, dragGain), Force(delta[2] * Px, dragGain)>>)]
           hit == IF target = NoTarget THEN {} ELSE {target}
       IN IF Cardinality(DOMAIN input.pointers) >= 2
          THEN \E pr \in PinchPairs(moved) :
                 LET out == applyPinchForces(dragged, moved, pr, dist, mid)
                 IN /\ bods' = out.bods
                    /\ input' = out.input
                    /\ touched' = hit \cup out.touched
                    /\ UNCHANGED engineRest
          ELSE /\ bods' = dragged
               /\ input' = moved
               /\ touched' = hit
               /\ UNCHANGED engineRest

Listening == input # NULL /\ input.attached

PointerDown ==
  /\ Listening
  /\ \E id \in PointerIds, spot \in Spots : onPointerDown(id, spot)
  /\ touched' = {}
  /\ UNCHANGED <<started, running, lastTs>>

PointerUp ==
  /\ Listening
  /\ \E id \in PointerIds : onPointerUp(id)
  /\ touched' = {}
  /\ UNCHANGED <<started, running, lastTs>>

PointerCancel ==
  /\ Listening
  /\ \E id \in PointerIds : onPointerUp(id)
  /\ touched' = {}
  /\ UNCHANGED <<started, running, lastTs>>

PointerMove ==
  /\ Listening
  /\ \A b \in DOMAIN bods : Abs(bods[b].force[1]) <= MaxPush /\ Abs(bods[b].force[2]) <= MaxPush
  /\ \E id \in PointerIds, spot \in Spots, delta \in DragDeltas,
        dist \in PinchDists, mid \in PinchMids :
       onPointerMove(id, spot, delta, dist, mid)
  /\ UNCHANGED <<started, running, lastTs, interacting>>

\* ---------------------------------------------------------- GameManager
\* the frame delta without the clamp
LoopDtUnclamped(ts, last) == IF ts - last = 0 THEN frameDefault ELSE ts - last

\* Math.min(32, ts - this.lastTs || 16)
LoopDt(ts, last) == Min(frameClamp, IF ts - last = 0 THEN frameDefault ELSE ts - last)

\* start(options): the first loop call runs synchronously with ts = lastTs
StartAt(now) ==
  /\ ~started
  /\ \E n \in StepCounts, r \in Radii :
       LET built == createSoftDonut(setBounds(Eng, Canvas[1], Canvas[2]),
                                    Canvas[1] \div 2, Canvas[2] \div 2, r, n)
       IN /\ input' = NewInput(built)
          /\ lastTs' = now
          /\ Commit(update(built, LoopDt(now, now)))
  /\ started' = TRUE
  /\ running' = TRUE
  /\ touched' = {}
  /\ UNCHANGED interacting

Start == \E now \in Timestamps : StartAt(now)

\* start(options) with the clock at zero
StartAtZero == StartAt(0)

Loop ==
  /\ running
  /\ steps < MaxFrames
  /\ \E ts \in Timestamps :
       /\ Commit(update(Eng, LoopDt(ts, lastTs)))
       /\ lastTs' = ts
  /\ touched' = {}
  /\ UNCHANGED <<input, started, running, interacting>>

Stop ==
  /\ started
  /\ running' = FALSE
  /\ input' = IF input = NULL THEN input ELSE detach(input)
  /\ touched' = {}
  /\ UNCHANGED <<engineVars, started, lastTs, interacting>>

ResetShape ==
  /\ started
  /\ \E n \in StepCounts, r \in Radii :
       LET rebuilt == resetSoftDonut(Eng, Canvas[1] \div 2, Canvas[2] \div 2, r, n)
       IN /\ Commit(rebuilt)
          /\ input' = NewInput(rebuilt)
  /\ touched' = {}
  /\ UNCHANGED <<started, running, lastTs, interacting>>

ResetAnchoredShape ==
  /\ started
  /\ \E a \in StepAnchors :
       LET rebuilt == resetSoftAnchored(Eng, a)
       IN /\ Commit(rebuilt)
          /\ input' = NewInput(rebuilt)
  /\ touched' = {}
  /\ UNCHANGED <<started, running, lastTs, interacting>>

GMNext ==
  \/ Start
  \/ Loop
  \/ Stop
  \/ ResetShape
  \/ ResetAnchoredShape
  \/ PointerDown
  \/ PointerUp
  \/ PointerCancel

GMSpec == Init /\ [][GMNext]_vars

\* the started game with pointers pressed, moved and released and the shape
\* reset in between
InputNext ==
  \/ StartAtZero
  \/ ResetShape
  \/ ResetAnchoredShape
  \/ PointerDown
  \/ PointerMove
  \/ PointerUp

InputSpec == Init /\ [][InputNext]_vars

\* ================================================================ claims
Outer(sb) == SeqToSet(sb.outer)
Links(sb) == SeqToSet(sb.constraints)

\* the links of the body joining outer[i] to outer[i + off], created at stiffness s
LinksAt(sb, off, s) ==
  {c \in Links(sb) :
     \E i \in 1..Len(sb.outer) :
        /\ cons[c].bodyA = sb.outer[i]
        /\ cons[c].bodyB = sb.outer[Ahead(i, off, Len(sb.outer))]
        /\ cons[c].stiffness = s}

SpokesOf(sb, o) == {c \in Links(sb) : cons[c].bodyA = o /\ cons[c].bodyB = sb.center}

RingShape(n) ==
  /\ softBody # NULL
  /\ Len(softBody.outer) = n
  /\ Cardinality(Outer(softBody)) = n
  /\ softBody.center \notin Outer(softBody)
  /\ Cardinality(LinksAt(softBody, 1, sNeighbor)) = n
  /\ \A o \in Outer(softBody) : Cardinality(SpokesOf(softBody, o)) = 1
  /\ Cardinality({c \in Links(softBody) : cons[c].bodyB = softBody.center}) = n
  /\ Cardinality(LinksAt(softBody, n \div 2, sDiameter)) = (IF n % 2 = 0 THEN n ELSE 0)
  /\ Cardinality({c \in Links(softBody) : cons[c].stiffness = sDiameter})
       = (IF n % 2 = 0 THEN n ELSE 0)

\* C1: every ring build (createSoftDonut or resetSoftDonut) with point count
\* n >= 3 yields a soft body with exactly n distinct outer points, n neighbor
\* links (offset 1 modulo n), one spoke per outer point (n spokes), and n
\* diameter links when n is even, none when n is odd.
C1_RingTopology ==
  (lastCall[1] \in {"createSoftDonut", "resetSoftDonut"} /\ lastCall[2] >= 3)
     => RingShape(lastCall[2])

C1_Witness ==
  /\ lastCall[1] = "resetSoftDonut"
  /\ lastCall[2] = 4
  /\ softBody # NULL
  /\ Cardinality(LinksAt(softBody, 2, sDiameter)) = 4

\* C2: interactBlend and recoveryGain both lie in [0,1] in every reachable
\* state, whatever dt the steps were given.
C2_BlendInRange ==
  /\ 0 <= interactBlend /\ interactBlend <= One
  /\ 0 <= recoveryGain /\ recoveryGain <= One

IsSpoke(sb, c) == cons[c].bodyB = sb.center

StepScaled ==
  LET ringScale == RingScale(Eng)
      spokeScale == SpokeScale(Eng)
  IN \A c \in Links(softBody) :
        /\ c \in DOMAIN baseStiffness
        /\ cons[c].stiffness =
             Scaled(baseStiffness[c], IF IsSpoke(softBody, c) THEN spokeScale ELSE ringScale)

\* the stiffness values the builders give a link from outer[i] to outer[i + d]
CreatedAt(d, n) ==
  {p[2] : p \in {q \in {<<1, sNeighbor>>, <<2, sSecond>>, <<3, sThird>>} : q[1] % n = d}}
    \cup (IF n % 2 = 0 /\ anchors = NoAnchors /\ (n \div 2) % n = d THEN {sDiameter} ELSE {})

CreationStiffness(sb, c) ==
  IF IsSpoke(sb, c) THEN {sSpoke}
  ELSE UNION {CreatedAt(d, Len(sb.outer)) :
                d \in {x \in 0..(Len(sb.outer) - 1) :
                         \E i \in 1..Len(sb.outer) :
                            /\ cons[c].bodyA = sb.outer[i]
                            /\ cons[c].bodyB = sb.outer[Ahead(i, x, Len(sb.outer))]}}

\* C3: after every update step each ring and spoke constraint of the live
\* soft body has stiffness = recorded base * the step's scale factor; the
\* recorded base stays a stiffness the constraint was created with, whatever
\* steps have run, so rescaling never compounds.
C3_StiffnessFromBase ==
  softBody # NULL =>
    /\ lastCall[1] = "update" => StepScaled
    /\ \A c \in Links(softBody) :
          /\ c \in DOMAIN baseStiffness
          /\ baseStiffness[c] \in CreationStiffness(softBody, c)

C3_Witness ==
  /\ steps >= 2
  /\ softBody # NULL
  /\ \E c \in Links(softBody) :
        /\ cons[c].stiffness # baseStiffness[c]
        /\ cons[c].stiffness # NaN
        /\ cons[c].stiffness > 0

\* C4: every update step runs its phases once each in the fixed order blend and
\* recovery, stiffness rescaling, conformance forces (radial or anchor),
\* integration, boundary containment.
C4_PhaseOrder ==
  IF steps = 0 THEN phases = <<>>
  ELSE /\ Len(phases) = 5
       /\ phases[1] = "blend"
       /\ phases[2] = "soften"
       /\ phases[3] \in {"radial", "anchor"}
       /\ phases[4] = "integrate"
       /\ phases[5] = "boundary"

C4_Witness == steps >= 2 /\ softBody # NULL /\ phases[3] = "anchor"

BodyState == <<softBody, world, cons, ringConstraints, spokeConstraints, baseStiffness, anchors>>

\* C5: a build or reset from fewer than 3 anchors leaves the live soft body, its
\* points and constraints, the ring and spoke lists, the recorded base stiffness
\* and the anchors as they were.
C5_RejectedKeepsBody ==
  [][\A a \in AnchorLists :
       (Len(a) < 3 /\ (Commit(createSoftAnchored(Eng, a)) \/ Commit(resetSoftAnchored(Eng, a))))
         => UNCHANGED BodyState]_vars

\* C6: no soft body with fewer than 3 outer points is ever live.
C6_NoSmallRing == softBody # NULL => Len(softBody.outer) >= 3

\* C7: the world holds the points and constraints of at most one soft body,
\* the live one.
C7_OneBodyInWorld == world \subseteq (IF softBody = NULL THEN {} ELSE Members(softBody))

\* C8: whenever a press ends, whatever steps fell between press and release,
\* the recovery ramp restarts from 0.
C8_RampRestarts == [][(isInteracting /\ ~isInteracting') => recoveryGain' = 0]_vars

\* C9: while an input controller is attached, the interacting flag is true
\* exactly when at least one pointer is tracked.
C9_FlagIffTracked == Listening => (isInteracting <=> Tracked # {})

\* C10: the timestep the game loop hands to update is at most 32 ms.
C10_DtClamped == lastCall[1] = "update" => lastCall[2] <= frameClamp

C10_Witness == steps >= 2 /\ lastTs = 1000 /\ lastCall = <<"update", frameClamp>>

\* the position, in 1/Px pixel, of the anchor of outer point i
AnchorAt(i) == <<anchors[i][1] * Px, anchors[i][2] * Px>>

AnchorMode == softBody # NULL /\ anchors # NoAnchors

\* C11: in anchor-attraction mode a step taken while the interacting flag is
\* true snaps no outer point onto its anchor, whatever its distance to it.
C11_NoSnapWhileInteracting ==
  (lastCall[1] = "update" /\ isInteracting /\ AnchorMode) => snapped = {}

C11_Witness ==
  /\ lastCall[1] = "update"
  /\ isInteracting
  /\ AnchorMode
  /\ nearby # {}
  /\ snapped = {}

\* C12: in idle anchor-attraction mode with no external force, an outer point
\* that was within the snap distance of its anchor in a step is, at the end of
\* that step and of every later one, exactly on its anchor with zero velocity.
C12_PinnedAfterSnap ==
  (lastCall[1] = "update" /\ ~isInteracting /\ AnchorMode) =>
     \A i \in snapped :
        /\ bods[softBody.outer[i]].pos = AnchorAt(i)
        /\ bods[softBody.outer[i]].vel = <<0, 0>>

\* C13: whenever a soft body is live and anchors are present there are as many
\* anchors as outer points, after any sequence of create and reset calls with
\* accepted or rejected arguments.
C13_AnchorsMatchOuter ==
  AnchorMode => Len(anchors) = Len(softBody.outer)

\* a rejected anchored build on top of a live anchored body
C13_Witness ==
  /\ lastCall = <<"createSoftAnchored", 2>>
  /\ AnchorMode
  /\ Len(anchors) = MaxN - 1

\* C14: the state resetSoftDonut produces depends on its arguments only, so
\* two calls with identical arguments, whatever ran in between, give the same
\* initial point positions, zero velocity on every point, and interactBlend
\* and recoveryGain both 0.
C14_ResetRingIdempotent ==
  lastCall[1] = "resetSoftDonut" =>
    /\ softBody # NULL
    /\ Len(softBody.outer) = lastCall[2]
    /\ bods[softBody.center].pos = <<lastCall[3] * Px, lastCall[4] * Px>>
    /\ \A i \in 1..Len(softBody.outer) :
          bods[softBody.outer[i]].pos =
            RingPoint(lastCall[3], lastCall[4], lastCall[5], lastCall[2], i)
    /\ \A b \in Bodies(softBody) : bods[b].vel = <<0, 0>>
    /\ interactBlend = 0
    /\ recoveryGain = 0

\* a reset of a body that was stepped while interacting
C14_Witness ==
  /\ lastCall[1] = "resetSoftDonut"
  /\ steps = MaxSteps
  /\ isInteracting
  /\ width > 0

\* C15: a build from n >= 3 anchors has the layered topology of a ring build:
\* n neighbor links, n skip-2 links, n skip-3 links, n spokes, and n diameter
\* links (offset n/2) when n is even, none when n is odd.
C15_AnchoredTopology ==
  (lastCall[1] \in {"createSoftAnchored", "resetSoftAnchored"} /\ lastCall[2] >= 3)
     => /\ RingShape(lastCall[2])
        /\ Cardinality(LinksAt(softBody, 2, sSecond)) = lastCall[2]
        /\ Cardinality(LinksAt(softBody, 3, sThird)) = lastCall[2]

BoundsSet == width > 2 * marginX /\ height > 2 * marginY

\* C16: with the bounds set (setBounds(400, 400)), the boundary phase of a step
\* leaves on every mass point of the soft body that lies beyond or within the
\* margin of an edge a force pointing inward from that edge: positive x at the
\* left edge, negative x at the right, positive y at the top, negative y at
\* the bottom.
C16_BoundaryForceInward ==
  (lastCall[1] = "update" /\ softBody # NULL /\ BoundsSet) =>
    \A b \in Bodies(softBody) :
       /\ bods[b].pos[1] < marginX * Px => bods[b].force[1] > 0
       /\ bods[b].pos[1] > (width - marginX) * Px => bods[b].force[1] < 0
       /\ bods[b].pos[2] < marginY * Px => bods[b].force[2] > 0
       /\ bods[b].pos[2] > (height - marginY) * Px => bods[b].force[2] < 0

\* a step with bounds 400 x 400 that ends with an outer point at x = -5
C16_Witness ==
  /\ lastCall[1] = "update"
  /\ softBody # NULL
  /\ width = 400 /\ height = 400
  /\ \E b \in Outer(softBody) : bods[b].pos[1] = -5 * Px /\ bods[b].force[1] > 0

TopologyKept ==
  /\ softBody' = softBody
  /\ anchors' = anchors
  /\ baseStiffness' = baseStiffness
  /\ softBody # NULL =>
        \A c \in Links(softBody) :
           /\ c \in DOMAIN cons'
           /\ cons'[c].bodyA = cons[c].bodyA
           /\ cons'[c].bodyB = cons[c].bodyB
           /\ cons'[c].length = cons[c].length

\* C20: update, setInteracting, setBounds, setFrictionAir and setAnchorStrength
\* leave the topology of the live soft body unchanged: the outer points in
\* order, the center, the constraints with their endpoints and rest lengths,
\* the recorded base stiffness and the anchors.
C20_TopologyFrame ==
  [][lastCall'[1] \in {"update", "setInteracting", "setBounds", "setFrictionAir",
                       "setAnchorStrength"} => TopologyKept]_vars

\* a step that rescaled the stiffness of a live constraint
C20_Witness ==
  /\ lastCall[1] = "update"
  /\ softBody # NULL
  /\ width > 0
  /\ \E c \in Links(softBody) : cons[c].stiffness # baseStiffness[c]

\* C18: update completes in every reachable state, and a step taken while no
\* soft body is live (before construction, after a rejected anchored reset,
\* with or without anchors present) changes no mass point.
C18_NoBodyNoMotion ==
  [][(lastCall'[1] = "update" /\ softBody = NULL) => bods' = bods]_vars

\* C21: a step taken while interacting leaves recoveryGain at 0; a step taken
\* while idle with dt >= 0 does not decrease recoveryGain, does not increase
\* interactBlend and leaves interactBlend at or above its target 0.
C21_RampMonotone ==
  [][(lastCall'[1] = "update" /\ steps' # steps) =>
       IF isInteracting
       THEN recoveryGain' = 0
       ELSE lastCall'[2] >= 0 =>
              /\ recoveryGain' >= recoveryGain
              /\ interactBlend' <= interactBlend
              /\ interactBlend' >= 0]_vars

\* the softest scale, in percent of the base, applied to constraint c
SoftFloor(c) == IF IsSpoke(softBody, c) THEN spokeSoft ELSE ringSoft

\* C22: at every step the applied ring stiffness lies in [0.2 x base, base] and
\* the applied spoke stiffness in [0.4 x base, base]; over consecutive idle
\* steps the applied stiffness does not decrease, and it equals the base once
\* the idle time has reached the recovery window.
C22_IdleStiffnessRamp ==
  [][(lastCall'[1] = "update" /\ steps' # steps /\ softBody # NULL) =>
       \A c \in Links(softBody) :
          /\ cons'[c].stiffness # NaN
          /\ 100 * cons'[c].stiffness >= SoftFloor(c) * baseStiffness[c]
          /\ cons'[c].stiffness <= baseStiffness[c]
          /\ (~isInteracting /\ lastCall[1] = "update") =>
                cons'[c].stiffness >= cons[c].stiffness
          /\ (~isInteracting /\ recoveryGain' = One) =>
                cons'[c].stiffness = baseStiffness[c]]_vars

\* body b after the boundary phase run on the current state with the given
\* flag, the body entering the phase with no force and velocity v
Squeezed(b, flag, v) ==
  applyBoundarySqueeze([Eng EXCEPT !.isInteracting = flag,
                                   !.bods[b].force = <<0, 0>>,
                                   !.bods[b].vel = v]).bods[b]

InMargin(b) ==
  \/ bods[b].pos[1] < marginX * Px
  \/ bods[b].pos[1] > (width - marginX) * Px
  \/ bods[b].pos[2] < marginY * Px
  \/ bods[b].pos[2] > (height - marginY) * Px

\* C23: for a point that receives a corrective boundary force, the force is
\* weaker with the interacting flag set than with it clear, and the velocity
\* kept after the damping is at least as large with the flag set as with it
\* clear.
C23_SqueezeWeakerInteracting ==
  (lastCall[1] = "update" /\ softBody # NULL /\ BoundsSet) =>
    \A b \in {x \in Bodies(softBody) : InMargin(x)} :
       LET held == Squeezed(b, TRUE, <<1000, 1000>>)
           idle == Squeezed(b, FALSE, <<1000, 1000>>)
       IN /\ Abs(held.force[1]) <= Abs(idle.force[1])
          /\ Abs(held.force[2]) <= Abs(idle.force[2])
          /\ Abs(held.force[1]) + Abs(held.force[2]) < Abs(idle.force[1]) + Abs(idle.force[2])
          /\ held.vel[1] >= idle.vel[1]
          /\ held.vel[2] >= idle.vel[2]

\* body b after the anchor pass run on the current state with the given flag,
\* the body entering the pass with no force and velocity v
Attracted(b, flag, v) ==
  applyAnchorAttraction([Eng EXCEPT !.isInteracting = flag,
                                    !.bods[b].force = <<0, 0>>,
                                    !.bods[b].vel = v]).bods[b]

\* C24: in anchor-attraction mode, whatever setAnchorStrength calls were made,
\* the anchor pass pulls at least as hard with the interacting flag clear as
\* with it set, and it damps the velocity when the flag is clear, no less than
\* when it is set.
C24_IdlePullsHarder ==
  AnchorMode =>
    /\ anchorKBase >= anchorKInteract
    /\ \A b \in Outer(softBody) :
          LET held == Attracted(b, TRUE, <<1000, 1000>>)
              idle == Attracted(b, FALSE, <<1000, 1000>>)
          IN /\ Abs(idle.force[1]) >= Abs(held.force[1])
             /\ Abs(idle.force[2]) >= Abs(held.force[2])
             /\ idle.vel[1] < 1000 /\ idle.vel[2] < 1000
             /\ idle.vel[1] <= held.vel[1] /\ idle.vel[2] <= held.vel[2]

\* outer point b after the radial-pressure phase run on the current state with
\* b placed exactly on the center and carrying no force
Collapsed(b) ==
  applyRadialPressure([Eng EXCEPT !.bods[b].pos = bods[softBody.center].pos,
                                  !.bods[b].force = <<0, 0>>]).bods[b]

\* C25: an outer point that coincides with the center in the radial-pressure
\* phase is touched along a unit-length fallback direction with a force of
\* magnitude gain x (rest radius - distance), the distance being 0.
C25_CoincidentPointPushed ==
  (lastCall[1] = "update" /\ softBody # NULL /\ anchors = NoAnchors) =>
    \A b \in Outer(softBody) :
       Hypot(Collapsed(b).force[1], Collapsed(b).force[2])
         = Force(baseRadius * Px, RadialGain(Eng))

\* C26: every step with a live soft body applies exactly one conformance
\* mode, anchor attraction if and only if the live body was built from anchors
\* (hasAnchors() is true) and radial pressure if and only if it was built as a
\* ring, after any sequence of ring and anchored resets, rejected ones included.
C26_ModeMatchesBuild ==
  (lastCall[1] = "update" /\ softBody # NULL) =>
    /\ Cardinality({k \in 1..Len(phases) : phases[k] \in {"radial", "anchor"}}) = 1
    /\ builtAs \in {"ring", "anchors"}
    /\ (\E k \in 1..Len(phases) : phases[k] = "anchor") <=> builtAs = "anchors"
    /\ (\E k \in 1..Len(phases) : phases[k] = "radial") <=> builtAs = "ring"
    /\ hasAnchors(Eng) <=> builtAs = "anchors"

\* a step in anchor-attraction mode on a body built from anchors
C26_Witness ==
  /\ lastCall[1] = "update"
  /\ softBody # NULL
  /\ builtAs = "anchors"
  /\ hasAnchors(Eng)
  /\ steps = MaxSteps
  /\ \E k \in 1..Len(phases) : phases[k] = "anchor"

\* C27: once resetShape, resetAnchoredShape or stop has returned, the engine's
\* interacting flag is false if the input controller tracks no pointer, also
\* when a pointer was held down at the time.
C27_FlagClearedByReset ==
  (/\ input # NULL
   /\ Tracked = {}
   /\ lastCall[1] \in {"resetSoftDonut", "resetSoftAnchored"} \/ ~running)
     => ~isInteracting

\* C28: after the initial construction and any resets, accepted or rejected,
\* the ring-constraint list and the spoke-constraint list are disjoint, their
\* union is the constraint set of the live soft body (both are empty when no
\* body is live), and base stiffness is recorded for exactly those.
C28_CachesMatchBody ==
  LET ring == SeqToSet(ringConstraints)
      spokes == SeqToSet(spokeConstraints)
  IN /\ ring \cap spokes = {}
     /\ Cardinality(ring) = Len(ringConstraints)
     /\ Cardinality(spokes) = Len(spokeConstraints)
     /\ ring \cup spokes = (IF softBody = NULL THEN {} ELSE Links(softBody))
     /\ DOMAIN baseStiffness = ring \cup spokes

\* an accepted anchored reset of a body that was stepped
C28_Witness ==
  /\ lastCall[1] = "resetSoftAnchored"
  /\ lastCall[2] >= 3
  /\ softBody # NULL
  /\ steps = MaxSteps
  /\ Len(ringConstraints) = 3 * lastCall[2]
  /\ Len(spokeConstraints) = lastCall[2]

\* C29: whatever frame timestamps reach the game loop after start (equal to,
\* later or earlier than the recorded one), the timestep handed to update is
\* strictly positive.
C29_DtPositive == (started /\ lastCall[1] = "update") => lastCall[2] > 0

\* C30: every drag or pinch force of the input controller goes to a mass
\* point of the live soft body: the bodies a pointer event applied a force to
\* are points of the current softBody, never of one a reset destroyed
C30_ForcesToLiveBody ==
  touched \subseteq (IF softBody = NULL THEN {} ELSE Bodies(softBody))

\* a pinch has pushed a point of the anchored body a reset put in place of
\* the ring: the force on it is not along the drag
C30_Witness ==
  /\ builtAs = "anchors"
  /\ softBody # NULL
  /\ Cardinality(touched) = 1
  /\ input.lastPinchDist # Undef
  /\ \E b \in touched, d \in DragDeltas :
       /\ b \in Bodies(softBody)
       /\ bods[b].force[1] * d[2] # bods[b].force[2] * d[1]

====
